---- MODULE Spec2Model ----
(***************************************************************************)
(* Model of contagionModel01.py: a binary-state contagion on a complete    *)
(* graph with one randomly activated agent per tick (Mesa scheduler), the  *)
(* per-tick data collection, the trace-constrained Intervention, and the   *)
(* experiment harness main() that runs one baseline and the counterfactual *)
(* variants, every run seeded with random.seed(1).                         *)
(*                                                                         *)
(* Numbers in [0,1] (probabilities, random.random()) are kept in           *)
(* hundredths: 0.5 is 50, 0.05 is 5, random.random() is a value of 0..99.  *)
(*                                                                         *)
(* Library behaviour the program relies on (Mesa, with string agent        *)
(* reporters and the scheduler's _agents ordered dict):                    *)
(*   - DataCollector.collect(model) stores the agents' rows under the key  *)
(*     model.schedule.steps as it is when collect is called, that is after *)
(*     the scheduler has incremented it;                                   *)
(*   - get_agent_vars_dataframe() gives a table indexed by (Step, AgentID);*)
(*   - indexing that table with a key it does not hold raises KeyError;    *)
(*   - random.choice of an empty sequence raises IndexError.               *)
(***************************************************************************)
EXTENDS Integers, Sequences, FiniteSets, TLC

\* ---------------------------------------------------------------- bounds
\* main() uses numAgents = 10 and numTicks = 10 * numAgents; the model
\* explores every population 0..MaxAgents and runs of MaxTicks ticks.
MaxAgents == 3
MaxTicks == 2
\* The open-ended run: populations 2..LiveAgents, and the number of
\* Model.step() calls whose rows are kept.
LiveAgents == 2
LiveHorizon == 3

\* ------------------------------------------------------------- constants
\* DiseaseAgent.__init__ / recover / reset_events: the "no cause" value.
NoCause == -100
\* infect(self, sender_id=-1): the default sender of a seed infection.
SeedSender == -1

\* Values random.random() can return, in hundredths: one below every positive
\* threshold used, one above every threshold below 1.
RandVals == {0, 75}

\* (percInfect, percRecover) pairs, in hundredths: main()'s 0.5 / 0.05, the
\* certain-infection / no-recovery pair, and a pair outside [0,1].
PercPairs == {<<50, 5>>, <<100, 0>>, <<150, -50>>}

\* initInfected lists handed to main()'s experiments: main()'s [0,1], a
\* single seed, no seed, a list naming an id no population has, and a list
\* naming an id twice (main() then repeats every experiment without that id).
SeedLists == {<<0, 1>>, <<0>>, <<>>, <<0, MaxAgents>>, <<0, 1, 1>>}

VARIABLES
    params,     \* main(): numAgents, initInfected, percInfect, percRecover, numTicks
    pc,         \* position of main(): "call", "loop", "done", "error", "live"
    exc,        \* the exception that ended main(): "None", "IndexError", "KeyError"
    phase,      \* which experiment loop main() is in: "base", "CF1", "CF2", "interv"
    k,          \* index (1-based) into initInfected of the loop variable a
    i,          \* loop variable of run()'s for loop
    model,      \* the DiseaseModel of the current run (NoModel before the first)
    tape,       \* values the generator seeded with 1 has produced, per tick
    pos,        \* number of per-tick draws consumed since the last random.seed(1)
    orig_trace, \* main(): table of the base run
    orig_infected_in_final,
    trace,      \* main(): local variable trace
    causal_rel, \* main(): causal_rel, experiment name -> set of ids
    csv         \* files written by run(): name -> rows

vars == <<params, pc, exc, phase, k, i, model, tape, pos, orig_trace,
          orig_infected_in_final, trace, causal_rel, csv>>

\* ------------------------------------------------------------- helpers
Range(s) == {s[j] : j \in DOMAIN s}

\* [b for b in initInfected if a != b]
RECURSIVE Without(_, _)
Without(s, a) ==
    IF s = <<>> THEN <<>>
    ELSE IF Head(s) = a THEN Without(Tail(s), a)
         ELSE <<Head(s)>> \o Without(Tail(s), a)

Ids(N) == 0 .. (N - 1)

\* ------------------------------------------------------------- agents
\* DiseaseAgent.__init__
NewAgent == [state |-> "HEALTHY", event |-> "NOTHING", cause |-> NoCause]

\* DiseaseAgent.infect(sender_id)
infect(ags, id, sender_id) ==
    [ags EXCEPT ![id] = [state |-> "INFECTED", event |-> "INFECT", cause |-> sender_id]]

\* recover() that leaves the state as it is.
recover_KeepsState(ags, id) ==
    [ags EXCEPT ![id] = [state |-> ags[id].state, event |-> "RECOVER", cause |-> NoCause]]

\* recover() that leaves the cause as it is.
recover_KeepsCause(ags, id) ==
    [ags EXCEPT ![id] = [state |-> "HEALTHY", event |-> "RECOVER", cause |-> ags[id].cause]]

\* DiseaseAgent.recover()
recover(ags, id) ==
    [ags EXCEPT ![id] = [state |-> "HEALTHY", event |-> "RECOVER", cause |-> NoCause]]

\* reset_events that resets the events and leaves the causes.
reset_events_KeepsCause(ags) ==
    [id \in DOMAIN ags |-> [ags[id] EXCEPT !.event = "NOTHING"]]

\* DiseaseModel.reset_events()
reset_events(ags) ==
    [id \in DOMAIN ags |-> [ags[id] EXCEPT !.event = "NOTHING", !.cause = NoCause]]

\* grid.get_neighbors(pos, include_center=False) on complete_graph(N), then
\* get_cell_list_contents: the other agents, in node order.
RECURSIVE NeighboursFrom(_, _, _)
NeighboursFrom(N, self, j) ==
    IF j >= N THEN <<>>
    ELSE IF j = self THEN NeighboursFrom(N, self, j + 1)
         ELSE <<j>> \o NeighboursFrom(N, self, j + 1)

neighbour_agents(N, self) == NeighboursFrom(N, self, 0)

\* ------------------------------------------------------------- random
\* What one tick takes from the generator, in the order the code draws it:
\* random.choice(self._agents), random.random() twice, random.choice of the
\* neighbour list (an index into a list of N-1 agents).  With one agent the
\* neighbour list is empty and no index is drawn (nb is then 0 and unused).
DrawSet(N) ==
    [agent : Ids(N), inf : RandVals, rec : RandVals,
     nb : IF N > 1 THEN 0 .. (N - 2) ELSE {0}]

\* ------------------------------------------------------------- model
\* DiseaseModel.__init__: no argument is checked; agents 0..N-1 are created
\* healthy and those whose id is in initInfected are infected with the
\* default sender.  intervention is <<>> for None, <<table>> otherwise.
DiseaseModel(N, initInfected, percInfect, percRecover, intervention) ==
    [num_agents   |-> N,
     initInfected |-> initInfected,
     percInfect   |-> percInfect,
     percRecover  |-> percRecover,
     intervention |-> intervention,
     agents       |-> [id \in Ids(N) |->
                          IF id \in Range(initInfected)
                          THEN [state |-> "INFECTED", event |-> "INFECT",
                                cause |-> SeedSender]
                          ELSE NewAgent],
     steps        |-> 0,
     records      |-> <<>>]

\* DiseaseAgent.step that recovers when rand_rec <= percRecover.
DiseaseAgentStep_RecoverLeq(m, ags, self, d) ==
    LET nbs == neighbour_agents(m.num_agents, self) IN
    IF nbs = <<>> THEN [exc |-> "IndexError", agents |-> ags]
    ELSE
      LET neighbour == nbs[d.nb + 1]
          a1 == IF ags[self].state = "INFECTED" /\ d.inf < m.percInfect
                THEN IF ~(ags[neighbour].state = "INFECTED")
                     THEN infect(ags, neighbour, self)
                     ELSE ags
                ELSE ags
          a2 == IF a1[self].state = "INFECTED" /\ d.rec <= m.percRecover
                THEN recover(a1, self)
                ELSE a1
      IN [exc |-> "None", agents |-> a2]

\* DiseaseAgent.step that infects every neighbour that is not INFECTED.
DiseaseAgentStep_InfectsAll(m, ags, self, d) ==
    LET nbs == neighbour_agents(m.num_agents, self) IN
    IF nbs = <<>> THEN [exc |-> "IndexError", agents |-> ags]
    ELSE
      LET a1 == IF ags[self].state = "INFECTED" /\ d.inf < m.percInfect
                THEN [id \in DOMAIN ags |->
                        IF id # self /\ ~(ags[id].state = "INFECTED")
                        THEN [state |-> "INFECTED", event |-> "INFECT", cause |-> self]
                        ELSE ags[id]]
                ELSE ags
          a2 == IF a1[self].state = "INFECTED" /\ d.rec < m.percRecover
                THEN recover(a1, self)
                ELSE a1
      IN [exc |-> "None", agents |-> a2]

\* DiseaseAgent.step that checks for recovery only when it did not infect.
DiseaseAgentStep_ElseRecover(m, ags, self, d) ==
    LET nbs == neighbour_agents(m.num_agents, self) IN
    IF nbs = <<>> THEN [exc |-> "IndexError", agents |-> ags]
    ELSE
      LET other == nbs[d.nb + 1]
          inf   == /\ ags[self].state = "INFECTED" /\ d.inf < m.percInfect
                   /\ ~(ags[other].state = "INFECTED")
          a1 == IF inf THEN infect(ags, other, self) ELSE ags
          a2 == IF ~inf /\ a1[self].state = "INFECTED" /\ d.rec < m.percRecover
                THEN recover(a1, self)
                ELSE a1
      IN [exc |-> "None", agents |-> a2]

\* DiseaseAgent.step that infects without testing its own state.
DiseaseAgentStep_NoStateCheck(m, ags, self, d) ==
    LET nbs == neighbour_agents(m.num_agents, self) IN
    IF nbs = <<>> THEN [exc |-> "IndexError", agents |-> ags]
    ELSE
      LET other == nbs[d.nb + 1]
          a1 == IF d.inf < m.percInfect /\ ~(ags[other].state = "INFECTED")
                THEN infect(ags, other, self)
                ELSE ags
          a2 == IF a1[self].state = "INFECTED" /\ d.rec < m.percRecover
                THEN recover(a1, self)
                ELSE a1
      IN [exc |-> "None", agents |-> a2]

\* DiseaseAgent.step that does nothing when the agent has no neighbour.
DiseaseAgentStep_NoNeighbourNoop(m, ags, self, d) ==
    LET nbs == neighbour_agents(m.num_agents, self) IN
    IF nbs = <<>> THEN [exc |-> "None", agents |-> ags]
    ELSE
      LET neighbour == nbs[d.nb + 1]
          a1 == IF ags[self].state = "INFECTED" /\ d.inf < m.percInfect
                THEN IF ~(ags[neighbour].state = "INFECTED")
                     THEN infect(ags, neighbour, self)
                     ELSE ags
                ELSE ags
          a2 == IF a1[self].state = "INFECTED" /\ d.rec < m.percRecover
                THEN recover(a1, self)
                ELSE a1
      IN [exc |-> "None", agents |-> a2]

\* DiseaseAgent.step of agent self on the agents ags of model m, with the
\* draws d.  exc is "IndexError" when the neighbour list is empty.
DiseaseAgentStep(m, ags, self, d) ==
    LET nbs == neighbour_agents(m.num_agents, self) IN
    IF nbs = <<>> THEN [exc |-> "IndexError", agents |-> ags]
    ELSE
      LET neighbour == nbs[d.nb + 1]
          a1 == IF ags[self].state = "INFECTED" /\ d.inf < m.percInfect
                THEN IF ~(ags[neighbour].state = "INFECTED")
                     THEN infect(ags, neighbour, self)
                     ELSE ags
                ELSE ags
          a2 == IF a1[self].state = "INFECTED" /\ d.rec < m.percRecover
                THEN recover(a1, self)
                ELSE a1
      IN [exc |-> "None", agents |-> a2]

\* RandomSingleActivation.step: one randomly chosen agent steps, then the
\* step counter is incremented (not when the agent's step raised).
RandomSingleActivationStep(m, ags, d) ==
    LET r == DiseaseAgentStep(m, ags, d.agent, d) IN
    [exc    |-> r.exc,
     agents |-> r.agents,
     steps  |-> IF r.exc = "None" THEN m.steps + 1 ELSE m.steps]

\* Intervention.apply, the loop over the agent ids from idx on.  tick is
\* model.schedule.steps-1; the baseline table is only indexed when the agent's
\* event is INFECT, and indexing a missing key raises KeyError.
RECURSIVE InterventionLoop(_, _, _, _, _)
InterventionLoop(tr, tick, N, ags, idx) ==
    IF idx >= N THEN [exc |-> "None", agents |-> ags]
    ELSE IF ags[idx].event = "INFECT"
         THEN IF <<tick, idx>> \notin DOMAIN tr
              THEN [exc |-> "KeyError", agents |-> ags]
              ELSE IF tr[<<tick, idx>>].Event # "INFECT"
                   THEN InterventionLoop(tr, tick, N, recover(ags, idx), idx + 1)
                   ELSE InterventionLoop(tr, tick, N, ags, idx + 1)
         ELSE InterventionLoop(tr, tick, N, ags, idx + 1)

InterventionApply(tr, N, ags, steps) ==
    InterventionLoop(tr, steps - 1, N, ags, 0)

\* DataCollector.collect: one row per agent, stored under the key
\* model.schedule.steps as it is at the call.
collect(records, N, ags, steps) ==
    (steps :> [j \in 1 .. N |->
                 <<steps, j - 1, ags[j - 1].state, ags[j - 1].event, ags[j - 1].cause>>])
    @@ records

\* DataCollector.get_agent_vars_dataframe: the table indexed by (Step, AgentID)
\* with the columns State, Event, Cause.
get_agent_vars_dataframe(records) ==
    LET keys == UNION {{<<s, records[s][j][2]>> : j \in DOMAIN records[s]} :
                       s \in DOMAIN records}
        row(key) == LET j == CHOOSE j \in DOMAIN records[key[1]] :
                                 records[key[1]][j][2] = key[2]
                    IN records[key[1]][j]
    IN [key \in keys |->
          [State |-> row(key)[3], Event |-> row(key)[4], Cause |-> row(key)[5]]]

\* DiseaseModel.step with the draws d: reset_events, schedule.step, the
\* intervention if there is one, collect.  An exception leaves the model as
\* the statements before it made it.
ModelStep(m, d) ==
    LET a0 == reset_events(m.agents)
        s  == RandomSingleActivationStep(m, a0, d)
        v  == IF m.intervention # <<>>
              THEN InterventionApply(m.intervention[1], m.num_agents, s.agents, s.steps)
              ELSE [exc |-> "None", agents |-> s.agents]
    IN IF s.exc # "None"
       THEN [exc |-> s.exc, model |-> [m EXCEPT !.agents = s.agents]]
       ELSE IF v.exc # "None"
            THEN [exc |-> v.exc,
                  model |-> [m EXCEPT !.agents = v.agents, !.steps = s.steps]]
            ELSE [exc |-> "None",
                  model |-> [m EXCEPT !.agents = v.agents, !.steps = s.steps,
                                      !.records = collect(m.records, m.num_agents,
                                                          v.agents, s.steps)]]

\* ------------------------------------------------------------- run()
\* The value of model before main() has constructed one.
NoModel == DiseaseModel(0, <<>>, 0, 0, <<>>)

\* str() of the enum members, as DataFrame.to_csv writes them.
StateStr(st) == IF st = "INFECTED" THEN "State.INFECTED" ELSE "State.HEALTHY"

EventStr(ev) ==
    IF ev = "INFECT" THEN "Event.INFECT"
    ELSE IF ev = "RECOVER" THEN "Event.RECOVER" ELSE "Event.NOTHING"

\* res.to_csv: one line Step,AgentID,State,Event,Cause per row of the table.
to_csv(res) ==
    {<<key[1], key[2], StateStr(res[key].State), EventStr(res[key].Event),
       res[key].Cause>> : key \in DOMAIN res}

\* [idx for (step,idx) in tr['State'].keys()
\*      if step == numTicks-1 and tr['State'][(step,idx)] == State.INFECTED]
infected_in_final(tr, numTicks) ==
    {key[2] : key \in {kk \in DOMAIN tr :
                         kk[1] = numTicks - 1 /\ tr[kk].State = "INFECTED"}}

\* The name of an experiment: "tr_base", or "<prefix>%d" % a.
Name(ph, a) ==
    IF ph = "base" THEN <<"tr_base">>
    ELSE IF ph = "CF1" THEN <<"tr_simpleCF1_wo", a>>
    ELSE IF ph = "CF2" THEN <<"tr_simpleCF2_wo", a>>
    ELSE <<"tr_intervCF_wo", a>>

\* The loop variable a of main()'s current for loop.
CurA == params.initInfected[k]

CurName == IF phase = "base" THEN Name("base", 0) ELSE Name(phase, CurA)

\* A run that does not reseed: the generator goes on where it is.
seed_NotReset(p) == p

\* random.seed(1): the generator restarts the sequence the seed determines.
seed(p) == 0

\* run() whose model takes the scheduler's step counter over from the model
\* of the run before (a scheduler shared between the runs).
RunInit_SharedSchedule(initInfected, intervention) ==
    /\ pos' = seed(pos)
    /\ model' = [DiseaseModel(params.numAgents, initInfected, params.percInfect,
                              params.percRecover, intervention)
                 EXCEPT !.steps = model.steps]
    /\ i' = 0
    /\ pc' = "loop"
    /\ UNCHANGED <<params, exc, phase, k, tape, orig_trace, orig_infected_in_final,
                   trace, causal_rel, csv>>

\* run(), lines 120-123: seed the generator and construct the model.
RunInit(initInfected, intervention) ==
    /\ pos' = seed(pos)
    /\ model' = DiseaseModel(params.numAgents, initInfected, params.percInfect,
                             params.percRecover, intervention)
    /\ i' = 0
    /\ pc' = "loop"
    /\ UNCHANGED <<params, exc, phase, k, tape, orig_trace, orig_infected_in_final,
                   trace, causal_rel, csv>>

\* main() line 145: the base run is called.
CallBase ==
    /\ pc = "call" /\ phase = "base"
    /\ RunInit(params.initInfected, <<>>)

\* main() lines 155 and 162: a simple counterfactual run is called.
CallSimpleCF ==
    /\ pc = "call" /\ phase \in {"CF1", "CF2"}
    /\ RunInit(Without(params.initInfected, CurA), <<>>)

\* main() lines 170-171: a run with an Intervention on the base table.
CallIntervCF ==
    /\ pc = "call" /\ phase = "interv"
    /\ RunInit(Without(params.initInfected, CurA), <<orig_trace>>)

\* run(), lines 124-125: one iteration of the loop, model.step().  The draws
\* are the next ones of the seeded sequence; an exception ends main().
Tick ==
    /\ pc = "loop" /\ i < params.numTicks
    /\ IF model.num_agents = 0
       THEN \* random.choice(self._agents) of no agents: IndexError
            /\ model' = [model EXCEPT !.agents = reset_events(model.agents)]
            /\ pc' = "error" /\ exc' = "IndexError"
            /\ UNCHANGED <<i, tape, pos>>
       ELSE \E d \in DrawSet(model.num_agents) :
            /\ pos < Len(tape) => d = tape[pos + 1]
            /\ tape' = IF pos < Len(tape) THEN tape ELSE Append(tape, d)
            /\ pos' = pos + 1
            /\ LET r == ModelStep(model, d) IN
               /\ model' = r.model
               /\ exc' = r.exc
               /\ pc' = IF r.exc = "None" THEN "loop" ELSE "error"
               /\ i' = IF r.exc = "None" THEN i + 1 ELSE i
    /\ UNCHANGED <<params, phase, k, orig_trace, orig_infected_in_final, trace,
                   causal_rel, csv>>

\* The table run() returns (line 129).
Res == get_agent_vars_dataframe(model.records)

\* main() moves to the next iteration of its for loops, or ends.
Advance ==
    LET n == Len(params.initInfected) IN
    IF phase = "base"
    THEN IF n = 0 THEN pc' = "done" /\ UNCHANGED <<phase, k>>
         ELSE pc' = "call" /\ phase' = "CF1" /\ k' = 1
    ELSE IF k < n THEN pc' = "call" /\ k' = k + 1 /\ UNCHANGED phase
    ELSE IF phase = "CF1" THEN pc' = "call" /\ phase' = "CF2" /\ k' = 1
    ELSE IF phase = "CF2" THEN pc' = "call" /\ phase' = "interv" /\ k' = 1
    ELSE pc' = "done" /\ UNCHANGED <<phase, k>>

\* run() lines 129-131 for the base run, then main() lines 145-150.
ReturnBase ==
    /\ pc = "loop" /\ i = params.numTicks /\ phase = "base"
    /\ csv' = (CurName :> to_csv(Res)) @@ csv
    /\ orig_trace' = Res
    /\ orig_infected_in_final' = infected_in_final(Res, params.numTicks)
    /\ causal_rel' = <<>>
    /\ Advance
    /\ UNCHANGED <<params, exc, i, model, tape, pos, trace>>

\* run() lines 129-131, then main() lines 155-158 (experiment 1).
ReturnCF1 ==
    /\ pc = "loop" /\ i = params.numTicks /\ phase = "CF1"
    /\ csv' = (CurName :> to_csv(Res)) @@ csv
    /\ trace' = Res
    /\ causal_rel' = (CurName :> (orig_infected_in_final
                                   \ infected_in_final(Res, params.numTicks)))
                     @@ causal_rel
    /\ Advance
    /\ UNCHANGED <<params, exc, i, model, tape, pos, orig_trace,
                   orig_infected_in_final>>

\* run() lines 129-131, then main() lines 162-165 (experiment 2): the value
\* run() returns is not assigned, trace is the one the last assignment left.
ReturnCF2 ==
    /\ pc = "loop" /\ i = params.numTicks /\ phase = "CF2"
    /\ csv' = (CurName :> to_csv(Res)) @@ csv
    /\ causal_rel' = (CurName :> (orig_infected_in_final
                                   \ infected_in_final(trace, params.numTicks)))
                     @@ causal_rel
    /\ Advance
    /\ UNCHANGED <<params, exc, i, model, tape, pos, orig_trace,
                   orig_infected_in_final, trace>>

\* run() lines 129-131, then main() lines 171-174 (intervention experiment).
ReturnIntervCF ==
    /\ pc = "loop" /\ i = params.numTicks /\ phase = "interv"
    /\ csv' = (CurName :> to_csv(Res)) @@ csv
    /\ trace' = Res
    /\ causal_rel' = (CurName :> (orig_infected_in_final
                                   \ infected_in_final(Res, params.numTicks)))
                     @@ causal_rel
    /\ Advance
    /\ UNCHANGED <<params, exc, i, model, tape, pos, orig_trace,
                   orig_infected_in_final>>

\* main() is entered with its parameters set (lines 135-142).
Init ==
    /\ params \in {[numAgents |-> N, initInfected |-> s, percInfect |-> pp[1],
                    percRecover |-> pp[2], numTicks |-> MaxTicks] :
                   N \in 0 .. MaxAgents, s \in SeedLists, pp \in PercPairs}
    /\ pc = "call" /\ exc = "None" /\ phase = "base" /\ k = 0 /\ i = 0
    /\ model = NoModel
    /\ tape = <<>> /\ pos = 0
    /\ orig_trace = <<>> /\ orig_infected_in_final = {} /\ trace = <<>>
    /\ causal_rel = <<>> /\ csv = <<>>

Next ==
    \/ CallBase
    \/ CallSimpleCF
    \/ CallIntervCF
    \/ Tick
    \/ ReturnBase
    \/ ReturnCF1
    \/ ReturnCF2
    \/ ReturnIntervCF

Spec == Init /\ [][Next]_vars

\* ------------------------------------------------- the open-ended run
\* Model.step() may be called any number of times on a model without an
\* intervention (the run loop of section 6 of the specification, the caller
\* controlling the tick budget).  The rows of the first LiveHorizon calls are
\* kept; later calls change the agents only.
LiveInit ==
    /\ params \in {[numAgents |-> N, initInfected |-> s, percInfect |-> pp[1],
                    percRecover |-> pp[2], numTicks |-> LiveHorizon] :
                   N \in 2 .. LiveAgents, s \in SeedLists, pp \in PercPairs}
    /\ pc = "live" /\ exc = "None" /\ phase = "base" /\ k = 0 /\ i = 0
    /\ model = DiseaseModel(params.numAgents, params.initInfected,
                            params.percInfect, params.percRecover, <<>>)
    /\ tape = <<>> /\ pos = 0
    /\ orig_trace = <<>> /\ orig_infected_in_final = {} /\ trace = <<>>
    /\ causal_rel = <<>> /\ csv = <<>>

\* One call of Model.step() in which random.choice picks agent a.
LiveTick(a) ==
    /\ pc = "live"
    /\ \E d \in DrawSet(model.num_agents) :
          /\ d.agent = a
          /\ LET r == ModelStep(model, d) IN
             model' = IF model.steps < LiveHorizon THEN r.model
                      ELSE [r.model EXCEPT !.steps = model.steps,
                                           !.records = model.records]
    /\ UNCHANGED <<params, pc, exc, phase, k, i, tape, pos, orig_trace,
                   orig_infected_in_final, trace, causal_rel, csv>>

LiveNext == \E a \in Ids(LiveAgents) : LiveTick(a)

\* random.choice draws uniformly and independently: every agent is activated
\* again and again.
LiveFairness == \A a \in Ids(LiveAgents) : WF_vars(LiveTick(a))

SpecLive == LiveInit /\ [][LiveNext]_vars /\ LiveFairness

AllInfected == \A id \in DOMAIN model.agents : model.agents[id].state = "INFECTED"

\* Two agents, exactly one of them infected, infection certain, no recovery.
C8_Case ==
    /\ model.num_agents = 2
    /\ Cardinality({id \in DOMAIN model.agents :
                      model.agents[id].state = "INFECTED"}) = 1
    /\ model.percInfect = 100 /\ model.percRecover = 0
    /\ model.intervention = <<>>

\* C8: with two agents, one seed, infect probability 1.0 and recover
\* probability 0.0, both agents are eventually INFECTED, and once both are
\* INFECTED they are INFECTED in every later tick.
C8_EventuallyAllInfected ==
    C8_Case => (<>AllInfected /\ [](AllInfected => []AllInfected))

C8_Witness ==
    /\ pc = "live" /\ model.num_agents = 2 /\ model.percInfect = 100
    /\ model.percRecover = 0 /\ Len(model.initInfected) = 1
    /\ model.steps >= 2 /\ AllInfected
    /\ \E key \in DOMAIN Res : Res[key].Event = "INFECT"

\* ------------------------------------------------------------- claims
\* Rows of the current run's table recorded for tick t.
TickRows(t) == {key \in DOMAIN Res : key[1] = t}

\* The state of agent key[2] before tick key[1] of the current run: the
\* previous tick's row, or the state the constructor left for the first tick.
PrevState(key) ==
    IF <<key[1] - 1, key[2]>> \in DOMAIN Res
    THEN Res[<<key[1] - 1, key[2]>>].State
    ELSE IF key[2] \in Range(model.initInfected) THEN "INFECTED" ELSE "HEALTHY"

\* Ids infected in the rows of the last tick a file holds.
FinalInfected(rows) ==
    IF rows = {} THEN {}
    ELSE LET last == CHOOSE t \in {r[1] : r \in rows} : \A r \in rows : r[1] <= t
         IN {r[2] : r \in {rr \in rows : rr[1] = last /\ rr[3] = "State.INFECTED"}}

\* C1: in a run with an Intervention on the base table, no row (t, id) has
\* event INFECT unless the base table's row (t, id) has event INFECT.
C1_InterventionSuppression ==
    (pc \in {"loop", "error"} /\ model.intervention # <<>>) =>
        \A key \in DOMAIN Res :
            (key \in DOMAIN orig_trace /\ orig_trace[key].Event # "INFECT")
                => Res[key].Event # "INFECT"

\* C2: after n returned calls of Model.step() the ticks 0..n-1 have one row
\* per agent each and no other tick has a row.
C2_TickCompleteness ==
    (pc = "loop" /\ exc = "None") =>
        \A t \in 0 .. (MaxTicks + 1) :
            Cardinality(TickRows(t)) = IF t < i THEN model.num_agents ELSE 0

\* C3: a missing row of the base table never ends the run: the lookup's
\* KeyError does not reach the caller.
C3_MissingBaselineSuppressed == exc # "KeyError"

\* C4: causal_rel[variant] is the ids infected in the last tick of the base
\* run minus the ids infected in the last tick of that variant's own run.
C4_CausalRelation ==
    \A name \in DOMAIN causal_rel :
        causal_rel[name] =
            FinalInfected(csv[Name("base", 0)]) \ FinalInfected(csv[name])

\* main()'s arguments that the constructor is to refuse.
InvalidArgs ==
    \/ params.numAgents = 0
    \/ \E id \in Range(params.initInfected) : id \notin Ids(params.numAgents)
    \/ params.percInfect < 0 \/ params.percInfect > 100
    \/ params.percRecover < 0 \/ params.percRecover > 100

\* C5: with invalid arguments no model is constructed and no tick executes.
C5_ConfigurationError == InvalidArgs => (pc # "loop" /\ model = NoModel)

\* C6: in a simple counterfactual run (seeds a sub-list of the base run's,
\* same seed, no intervention) every agent infected at a tick is infected in
\* the base run at that tick.
C6_SeedMonotonicity ==
    (pc = "loop" /\ phase \in {"CF1", "CF2"}) =>
        \A key \in DOMAIN Res :
            Res[key].State = "INFECTED" =>
                (key \in DOMAIN orig_trace /\ orig_trace[key].State = "INFECTED")

C6_Witness ==
    /\ pc = "loop" /\ phase = "CF1" /\ i = params.numTicks
    /\ \E key \in DOMAIN Res : Res[key].State = "INFECTED"
    /\ \E key \in DOMAIN Res :
          Res[key].State = "HEALTHY" /\ orig_trace[key].State = "INFECTED"

\* The files of the two simple counterfactual experiments without the same
\* seed id (same arguments, no intervention) hold the same rows.
SameSimpleCF ==
    \A a \in Range(params.initInfected) :
        (Name("CF1", a) \in DOMAIN csv /\ Name("CF2", a) \in DOMAIN csv)
            => csv[Name("CF1", a)] = csv[Name("CF2", a)]

\* A run repeated under the same name (same arguments, same intervention)
\* writes the rows the file already holds.
SameOnRepeat ==
    \A n \in DOMAIN csv : n \in DOMAIN csv' => csv'[n] = csv[n]

\* C7: two runs with the same arguments and the same random seed record the
\* same state, event and cause at every (tick, agent id).
C7_Determinism == []SameSimpleCF /\ [][SameOnRepeat]_vars

\* The intervention experiment without id 1 has run twice, reverting an
\* infection (a RECOVER row of an agent that was HEALTHY), after the simple
\* experiments without id 1 recorded an infection.
C7_Witness ==
    /\ pc = "call" /\ phase = "interv" /\ k = 3
    /\ model.intervention # <<>>
    /\ \E key \in DOMAIN Res :
          Res[key].Event = "RECOVER" /\ PrevState(key) = "HEALTHY"
    /\ Name("CF1", 1) \in DOMAIN csv /\ Name("CF2", 1) \in DOMAIN csv
    /\ \E r \in csv[Name("CF2", 1)] : r[4] = "Event.INFECT"

\* C9: every row's event is INFECT, RECOVER or NOTHING, and its state is
\* INFECTED exactly if the event is INFECT, or the agent was INFECTED before
\* the tick and the event is not RECOVER.
C9_EventExclusivity ==
    \A key \in DOMAIN Res :
        /\ Res[key].Event \in {"INFECT", "RECOVER", "NOTHING"}
        /\ Res[key].State = "INFECTED" <=>
              \/ Res[key].Event = "INFECT"
              \/ PrevState(key) = "INFECTED" /\ Res[key].Event # "RECOVER"

C9_Witness ==
    /\ \E key \in DOMAIN Res : Res[key].Event = "INFECT"
    /\ \E key \in DOMAIN Res :
          Res[key].Event = "RECOVER" /\ PrevState(key) = "INFECTED"
    /\ \E key \in DOMAIN Res :
          Res[key].Event = "NOTHING" /\ Res[key].State = "INFECTED"

\* C10: every row whose event is RECOVER has state HEALTHY and the no-cause
\* value as its cause, also when the Intervention made the agent recover.
C10_RecoveryClearsCause ==
    \A key \in DOMAIN Res :
        Res[key].Event = "RECOVER" =>
            (Res[key].State = "HEALTHY" /\ Res[key].Cause = NoCause)

C10_Witness ==
    /\ model.intervention # <<>>
    /\ \E key \in DOMAIN Res :
          Res[key].Event = "RECOVER" /\ PrevState(key) = "HEALTHY"

\* C11: right after construction every agent whose id is in initInfected is
\* INFECTED with the no-cause value as its cause, and every other agent is as
\* DiseaseAgent.__init__ made it (HEALTHY, NOTHING, no cause).
C11_SeedInfection ==
    (pc = "loop" /\ i = 0 /\ model.steps = 0) =>
        \A id \in DOMAIN model.agents :
            IF id \in Range(model.initInfected)
            THEN model.agents[id].state = "INFECTED" /\ model.agents[id].cause = NoCause
            ELSE model.agents[id] = NewAgent

\* C12: when the only agent of a population of one is activated, the tick
\* ends with an error, main() ends with it, and no row of any tick is
\* recorded: the run never gets past its first tick.
C12_NoNeighbourFails ==
    params.numAgents = 1 =>
        /\ pc \in {"call", "loop", "error"}
        /\ pc = "loop" => i = 0
        /\ pc = "error" => exc = "IndexError"
        /\ model.steps = 0
        /\ model.records = <<>>

C12_Witness ==
    /\ params.numAgents = 1 /\ pc = "error" /\ exc = "IndexError"
    /\ pos = 1 /\ model.num_agents = 1 /\ DOMAIN Res = {}

\* C13: every causal_rel[variant] is a subset of the ids infected in the last
\* tick of the base run.
C13_CausalDiffSubset ==
    \A name \in DOMAIN causal_rel :
        causal_rel[name] \subseteq FinalInfected(csv[Name("base", 0)])

\* A step of run()'s loop that took draws: the call of model.step().
IsTick == pc = "loop" /\ pos' = pos + 1

\* The draws of that call, the agent random.choice activated and the
\* neighbour it selected.
TickDraw == tape'[pos']

Activated == TickDraw.agent

Selected == neighbour_agents(model.num_agents, Activated)[TickDraw.nb + 1]

\* C14: a tick activates one agent; the states of all agents but the
\* activated one and the neighbour it selected are after the tick what they
\* were before it, and the scheduler's step counter has advanced by 1.
C14_TickFrame ==
    [][(IsTick /\ model.num_agents >= 2) =>
          /\ model'.steps = model.steps + 1
          /\ \A id \in DOMAIN model.agents \ {Activated, Selected} :
                model'.agents[id].state = model.agents[id].state
          /\ LET s == RandomSingleActivationStep(model, reset_events(model.agents),
                                                 TickDraw)
             IN /\ s.steps = model.steps + 1
                /\ \A id \in DOMAIN model.agents \ {Activated, Selected} :
                      s.agents[id].state = model.agents[id].state]_vars

\* A population of three after its first tick, in which the activated agent
\* recovered, its neighbour was infected and the third agent was left alone.
C14_Witness ==
    /\ pc = "loop" /\ model.num_agents = 3 /\ model.steps = 1
    /\ \E a, b, c \in DOMAIN model.agents :
          /\ a # b /\ b # c /\ a # c
          /\ model.agents[a].event = "RECOVER"
          /\ model.agents[b].event = "INFECT" /\ model.agents[b].cause = a
          /\ model.agents[c].event = "NOTHING" /\ model.agents[c].state = "HEALTHY"

\* The agents as schedule.step() leaves them in the call of model.step(),
\* before the intervention is applied.
Scheduled == RandomSingleActivationStep(model, reset_events(model.agents), TickDraw)

\* C15: in a tick of a run with an Intervention, an agent infected this tick
\* whose base row of the same (tick, id) has event INFECT is after the pass as
\* the scheduler left it, so is every agent whose event is not INFECT, and an
\* agent infected after the pass was infected before it.
C15_InterventionFrame ==
    [][(IsTick /\ model.num_agents >= 2 /\ model.intervention # <<>>) =>
          LET s    == Scheduled
              base == model.intervention[1]
          IN \A id \in DOMAIN model.agents :
                /\ (/\ s.agents[id].event = "INFECT"
                    /\ <<s.steps, id>> \in DOMAIN base
                    /\ base[<<s.steps, id>>].Event = "INFECT")
                      => model'.agents[id] = s.agents[id]
                /\ s.agents[id].event # "INFECT" => model'.agents[id] = s.agents[id]
                /\ model'.agents[id].state = "INFECTED"
                      => s.agents[id].state = "INFECTED"]_vars

InfectCall(id, sender_id) ==
    /\ pc = "live"
    /\ id \in DOMAIN model.agents
    /\ model' = [model EXCEPT !.agents = infect(model.agents, id, sender_id)]
    /\ UNCHANGED <<params, pc, exc, phase, k, i, tape, pos, orig_trace,
                   orig_infected_in_final, trace, causal_rel, csv>>

\* The sender is another agent, or the default of the parameter.
InfectAny ==
    \E id \in Ids(LiveAgents) :
        \E sender_id \in (Ids(LiveAgents) \ {id}) \cup {SeedSender} :
            InfectCall(id, sender_id)

\* The caller's calls of infect() come between the calls of Model.step().
InfectNext ==
    \/ LiveNext
    \/ InfectAny

SpecInfect == LiveInit /\ [][InfectNext]_vars

\* C17: infect(sender_id) called on an agent that is already INFECTED leaves
\* the agent's state, event and cause as they were.
C17_InfectDefensive ==
    [][\A id \in Ids(LiveAgents) :
          \A sender_id \in (Ids(LiveAgents) \ {id}) \cup {SeedSender} :
              (InfectCall(id, sender_id) /\ model.agents[id].state = "INFECTED")
                  => model'.agents[id] = model.agents[id]]_vars

\* C18: a row with event INFECT has as cause the agent activated in that
\* tick, which is another agent and was INFECTED before the tick; a row with
\* another event has the cause -100, so that the -1 of the seeds is in no
\* row; a tick has at most one row with event INFECT.
C18_TraceCauses ==
    /\ \A key \in DOMAIN Res :
          /\ Res[key].Cause # SeedSender
          /\ IF Res[key].Event = "INFECT"
             THEN /\ key[1] \in DOMAIN tape
                  /\ Res[key].Cause = tape[key[1]].agent
                  /\ Res[key].Cause # key[2]
                  /\ PrevState(<<key[1], Res[key].Cause>>) = "INFECTED"
             ELSE Res[key].Cause = NoCause
    /\ \A t \in 0 .. (MaxTicks + 1) :
          Cardinality({key \in TickRows(t) : Res[key].Event = "INFECT"}) <= 1

\* A chain of two infections: the agent infected in tick 1 is the cause of
\* the infection of tick 2, and the seed's rows carry no cause.
C18_Witness ==
    /\ model.num_agents = 3 /\ model.steps = 2 /\ Len(model.initInfected) = 1
    /\ \E a, b, c \in DOMAIN model.agents :
          /\ a # b /\ b # c /\ a # c
          /\ a \in Range(model.initInfected)
          /\ Res[<<1, b>>].Event = "INFECT" /\ Res[<<1, b>>].Cause = a
          /\ Res[<<2, c>>].Event = "INFECT" /\ Res[<<2, c>>].Cause = b
          /\ Res[<<1, a>>].Cause = NoCause /\ Res[<<2, a>>].Cause = NoCause

AllHealthy(ags) == \A id \in DOMAIN ags : ags[id].state = "HEALTHY"

\* C19: a tick that starts with no agent INFECTED ends with every agent
\* HEALTHY and records event NOTHING and cause -100 for every agent, in runs
\* with and without an Intervention.
C19_AllHealthyAbsorbing ==
    [][(IsTick /\ model.num_agents >= 2 /\ AllHealthy(model.agents)) =>
          /\ exc' = "None"
          /\ AllHealthy(model'.agents)
          /\ model'.steps \in DOMAIN model'.records
          /\ LET rows == get_agent_vars_dataframe(model'.records) IN
             \A id \in DOMAIN model.agents :
                rows[<<model'.steps, id>>] =
                    [State |-> "HEALTHY", Event |-> "NOTHING", Cause |-> NoCause]]_vars

\* A run with an Intervention whose only seed recovered in tick 1, after a
\* second tick that found every agent HEALTHY.
C19_Witness ==
    /\ pc = "loop" /\ model.intervention # <<>> /\ model.steps = 2
    /\ Len(model.initInfected) = 1
    /\ \E a \in Range(model.initInfected) : Res[<<1, a>>].Event = "RECOVER"
    /\ \A id \in DOMAIN model.agents :
          /\ Res[<<1, id>>].State = "HEALTHY"
          /\ Res[<<2, id>>] = [State |-> "HEALTHY", Event |-> "NOTHING", Cause |-> NoCause]

====
